---- MODULE Spec2Model ----
(***************************************************************************)
(* skylite-proc: the two macro-to-function adapters.                       *)
(*                                                                         *)
(*   Adapter A  crates/skylite-proc/chibi-scheme-wrapper/wrapper.{h,c}     *)
(*   Adapter B  crates/skylite-proc/guile-wrapper/wrapper.{h,c}            *)
(*                                                                         *)
(* Every wrapper is one C function whose body expands one macro of the     *)
(* interpreter's header (chibi/eval.h, libguile.h).  A wrapper is modelled *)
(* by an operator of the wrapper's name; the macro it expands is modelled  *)
(* by the operator macro_<name>, which follows the tagged-word layout of   *)
(* the interpreter's header.  The C conversions a wrapper's parameter and  *)
(* return types perform (char, bool) are applied where the C code applies  *)
(* them.  Machine words are WordBits wide and all word arithmetic is       *)
(* taken modulo 2^WordBits.                                                *)
(***************************************************************************)
EXTENDS Integers, Sequences, FiniteSets, TLC

VARIABLES backend, charSigned, heap, blocks, frees, call

vars == <<backend, charSigned, heap, blocks, frees, call>>

(***************************************************************************)
(* Bounds of the model.                                                    *)
(***************************************************************************)
WordBits == 20      \* width of sexp / sexp_sint_t / SCM in the model
Edge == 2           \* how far the integer samples reach around each boundary
MaxObjs == 2        \* heap objects of Adapter A's interpreter, the empty vector included
MaxLen == 2         \* length of a constructed string / bytevector / vector
MaxBlocks == 2      \* raw buffers handed across Adapter B's boundary
MaxFrees == 2       \* wrapper_free calls counted per block

(***************************************************************************)
(* Machine words and C conversions.                                        *)
(***************************************************************************)
CharBits == 8

WordMod == 2 ^ WordBits
SintMin == -(2 ^ (WordBits - 1))
SintMax == 2 ^ (WordBits - 1) - 1

\* (sexp_uint_t) n / (sexp) n : the word holding n, modulo 2^WordBits
ToWord(n) == n % WordMod
\* (sexp_sint_t) x : the two's complement reading of a word
ToSint(x) == IF x % WordMod >= 2 ^ (WordBits - 1) THEN (x % WordMod) - WordMod ELSE x % WordMod
\* n << k and n >> k on sexp_sint_t (arithmetic shift: floor division)
Shl(n, k) == n * (2 ^ k)
Shr(n, k) == n \div (2 ^ k)
\* the low k bits of a word (x & ((1 << k) - 1))
LowBits(x, k) == x % (2 ^ k)

\* conversion of an integer to C `char`; its signedness is the build's choice
ToChar(v) ==
    LET b == v % (2 ^ CharBits)
    IN IF charSigned /\ b >= 2 ^ (CharBits - 1) THEN b - 2 ^ CharBits ELSE b
\* conversion to `unsigned char`
ToUChar(v) == v % (2 ^ CharBits)
\* conversion of a scalar to C `bool` (stdbool.h)
ToBool(v) == IF v # 0 THEN 1 ELSE 0

RECURSIVE BitAnd(_, _)
BitAnd(a, b) ==
    IF a = 0 \/ b = 0 THEN 0
    ELSE (a % 2) * (b % 2) + 2 * BitAnd(a \div 2, b \div 2)

RECURSIVE BitXor(_, _)
BitXor(a, b) ==
    IF a = 0 THEN b
    ELSE IF b = 0 THEN a
    ELSE ((a + b) % 2) + 2 * BitXor(a \div 2, b \div 2)

BitNot(a) == (WordMod - 1) - a

(***************************************************************************)
(* Adapter A: tagged words of the wrapped interpreter (chibi/sexp.h).      *)
(*   bits end in    1: fixnum        00: pointer      010: string cursor   *)
(*           00011110: char    00111110: unique immediate                  *)
(***************************************************************************)
SEXP_FIXNUM_BITS == 1
SEXP_POINTER_BITS == 2
SEXP_STRING_CURSOR_BITS == 3
SEXP_EXTENDED_BITS == 8

SEXP_POINTER_TAG == 0
SEXP_FIXNUM_TAG == 1
SEXP_STRING_CURSOR_TAG == 2
SEXP_CHAR_TAG == 30
SEXP_EXTENDED_TAG == 62

SEXP_MAKE_IMMEDIATE(n) == Shl(n, SEXP_EXTENDED_BITS) + SEXP_EXTENDED_TAG
SEXP_FALSE == SEXP_MAKE_IMMEDIATE(0)
SEXP_TRUE == SEXP_MAKE_IMMEDIATE(1)
SEXP_NULL == SEXP_MAKE_IMMEDIATE(2)
SEXP_VOID == SEXP_MAKE_IMMEDIATE(4)

SEXP_MAX_FIXNUM == 2 ^ (WordBits - SEXP_FIXNUM_BITS - 1) - 1
SEXP_MIN_FIXNUM == -SEXP_MAX_FIXNUM - 1

\* enum sexp_types, the tags of heap objects
SEXP_PAIR == 6
SEXP_BYTES == 8
SEXP_STRING == 9
SEXP_VECTOR == 10

(***************************************************************************)
(* Scalar boxing macros of the interpreter.                                *)
(***************************************************************************)
macro_sexp_make_boolean(x) == IF x # 0 THEN SEXP_TRUE ELSE SEXP_FALSE
macro_sexp_unbox_boolean(x) == IF x = SEXP_FALSE THEN 0 ELSE 1

macro_sexp_make_fixnum(n) == ToWord(Shl(n, SEXP_FIXNUM_BITS) + SEXP_FIXNUM_TAG)
macro_sexp_unbox_fixnum(x) == Shr(ToSint(x), SEXP_FIXNUM_BITS)

macro_sexp_make_character(n) == ToWord(Shl(n, SEXP_EXTENDED_BITS) + SEXP_CHAR_TAG)
macro_sexp_unbox_character(x) == Shr(ToSint(x), SEXP_EXTENDED_BITS)

macro_sexp_make_string_cursor(n) ==
    ToWord(Shl(n, SEXP_STRING_CURSOR_BITS) + SEXP_STRING_CURSOR_TAG)
macro_sexp_unbox_string_cursor(x) == Shr(ToSint(x), SEXP_STRING_CURSOR_BITS)

(***************************************************************************)
(* Heap objects of the interpreter.  A pointer is the object's address     *)
(* shifted past the pointer tag; heap[a] is the object at address a.       *)
(* A string owns its UTF-8 byte buffer (SEXP_USE_UTF8_STRINGS).            *)
(***************************************************************************)
PtrTo(a) == Shl(a, SEXP_POINTER_BITS)
AddrOf(x) == Shr(x, SEXP_POINTER_BITS)

macro_sexp_pointerp(x) == LowBits(x, SEXP_POINTER_BITS) = SEXP_POINTER_TAG
macro_sexp_check_tag(h, x, t) ==
    /\ macro_sexp_pointerp(x)
    /\ AddrOf(x) \in 1..Len(h)
    /\ h[AddrOf(x)].tag = t

\* the int a C comparison yields
CInt(b) == IF b THEN 1 ELSE 0

macro_sexp_booleanp(x) == CInt(x = SEXP_TRUE \/ x = SEXP_FALSE)
macro_sexp_fixnump(x) == CInt(LowBits(x, SEXP_FIXNUM_BITS) = SEXP_FIXNUM_TAG)
macro_sexp_charp(x) == CInt(LowBits(x, SEXP_EXTENDED_BITS) = SEXP_CHAR_TAG)
macro_sexp_pairp(h, x) == CInt(macro_sexp_check_tag(h, x, SEXP_PAIR))
macro_sexp_vectorp(h, x) == CInt(macro_sexp_check_tag(h, x, SEXP_VECTOR))
macro_sexp_bytesp(h, x) == CInt(macro_sexp_check_tag(h, x, SEXP_BYTES))
macro_sexp_stringp(h, x) == CInt(macro_sexp_check_tag(h, x, SEXP_STRING))

\* the result of an operation: the heap it leaves and the value it yields
\* (has = FALSE: the expression has type void and yields no value)
Res(h, v) == [heap |-> h, val |-> v, has |-> TRUE]
NoRes(h) == [heap |-> h, val |-> 0, has |-> FALSE]

Fill(n, v) == [k \in 1..n |-> v]

\* sexp_alloc_type: a fresh object at the next address
Alloc(h, obj) == Res(Append(h, obj), PtrTo(Len(h) + 1))

\* the interpreter's global empty vector, allocated with the context
EmptyVectorAddr == 1

macro_sexp_cons(h, a, b) == Alloc(h, [tag |-> SEXP_PAIR, car |-> a, cdr |-> b])
macro_sexp_list1(h, a) == macro_sexp_cons(h, a, SEXP_NULL)
macro_sexp_car(h, x) == h[AddrOf(x)].car
macro_sexp_cdr(h, x) == h[AddrOf(x)].cdr

macro_sexp_make_vector(h, len, dflt) ==
    LET n == macro_sexp_unbox_fixnum(len)
    IN IF n = 0 THEN Res(h, PtrTo(EmptyVectorAddr))
       ELSE Alloc(h, [tag |-> SEXP_VECTOR, data |-> Fill(n, dflt)])
macro_sexp_vector_ref(h, x, i) == h[AddrOf(x)].data[macro_sexp_unbox_fixnum(i) + 1]
\* (sexp_vector_data(x)[sexp_unbox_fixnum(i)] = (v)): an assignment expression,
\* its value is the value stored
macro_sexp_vector_set(h, x, i, v) ==
    Res([h EXCEPT ![AddrOf(x)].data[macro_sexp_unbox_fixnum(i) + 1] = v], v)

\* memset(data, sexp_unbox_fixnum(i), len) when i is a fixnum
macro_sexp_make_bytes(h, len, i) ==
    LET n == macro_sexp_unbox_fixnum(len)
        b == IF macro_sexp_fixnump(i) = 1 THEN ToUChar(macro_sexp_unbox_fixnum(i)) ELSE 0
    IN Alloc(h, [tag |-> SEXP_BYTES, data |-> Fill(n, b)])
\* sexp_make_fixnum((unsigned char) sexp_bytes_data(x)[sexp_unbox_fixnum(i)])
macro_sexp_bytes_ref(h, x, i) ==
    macro_sexp_make_fixnum(ToUChar(h[AddrOf(x)].data[macro_sexp_unbox_fixnum(i) + 1]))
\* (sexp_bytes_data(x)[sexp_unbox_fixnum(i)] = sexp_unbox_fixnum(v)): the value
\* of the assignment is the char stored
macro_sexp_bytes_set(h, x, i, v) ==
    Res([h EXCEPT ![AddrOf(x)].data[macro_sexp_unbox_fixnum(i) + 1] =
             ToUChar(macro_sexp_unbox_fixnum(v))],
        ToChar(macro_sexp_unbox_fixnum(v)))

(***************************************************************************)
(* UTF-8 strings of the interpreter: sexp_utf8_char_byte_count,            *)
(* sexp_utf8_initial_byte_count, sexp_utf8_encode_char, sexp_string_utf8_  *)
(* ref / _set and the index-to-cursor walk, for code points of up to three *)
(* bytes.                                                                  *)
(***************************************************************************)
Utf8CharByteCount(c) == IF c < 128 THEN 1 ELSE IF c < 2048 THEN 2 ELSE 3
Utf8InitialByteCount(b) == IF b < 192 THEN 1 ELSE IF b < 224 THEN 2 ELSE 3

Utf8Encode(c) ==
    IF c < 128 THEN <<c>>
    ELSE IF c < 2048 THEN <<192 + Shr(c, 6), 128 + LowBits(c, 6)>>
    ELSE <<224 + Shr(c, 12), 128 + LowBits(Shr(c, 6), 6), 128 + LowBits(c, 6)>>

\* the code point whose encoding starts at byte offset off
Utf8DecodeAt(data, off) ==
    LET b == data[off + 1]
    IN IF b < 128 THEN b
       ELSE IF b < 224 THEN Shl(LowBits(b, 6), 6) + LowBits(data[off + 2], 6)
       ELSE Shl(LowBits(b, 5), 12) + Shl(LowBits(data[off + 2], 6), 6)
                + LowBits(data[off + 3], 6)

\* sexp_string_index_to_cursor: the byte offset of the k-th character
RECURSIVE Utf8Cursor(_, _, _)
Utf8Cursor(data, off, k) ==
    IF k = 0 \/ off >= Len(data) THEN off
    ELSE Utf8Cursor(data, off + Utf8InitialByteCount(data[off + 1]), k - 1)

RECURSIVE Utf8Length(_, _)
Utf8Length(data, off) ==
    IF off >= Len(data) THEN 0
    ELSE 1 + Utf8Length(data, off + Utf8InitialByteCount(data[off + 1]))

RECURSIVE Repeat(_, _)
Repeat(n, bytes) == IF n <= 0 THEN <<>> ELSE bytes \o Repeat(n - 1, bytes)

\* sexp_make_string_op: len copies of the encoding of ch
macro_sexp_make_string(h, len, ch) ==
    LET n == macro_sexp_unbox_fixnum(len)
        d == IF macro_sexp_charp(ch) = 1
             THEN Repeat(n, Utf8Encode(macro_sexp_unbox_character(ch)))
             ELSE Fill(n, IF macro_sexp_fixnump(ch) = 1
                          THEN ToUChar(macro_sexp_unbox_fixnum(ch)) ELSE 0)
    IN Alloc(h, [tag |-> SEXP_STRING, data |-> d])


macro_sexp_string_length(h, s) == Utf8Length(h[AddrOf(s)].data, 0)

\* sexp_string_utf8_ref
macro_sexp_string_cursor_ref(h, s, i) ==
    macro_sexp_make_character(
        Utf8DecodeAt(h[AddrOf(s)].data, macro_sexp_unbox_string_cursor(i)))

\* sexp_string_utf8_index_ref
macro_sexp_string_ref(h, s, i) ==
    macro_sexp_string_cursor_ref(h, s,
        macro_sexp_make_string_cursor(
            Utf8Cursor(h[AddrOf(s)].data, 0, macro_sexp_unbox_fixnum(i))))

\* sexp_string_utf8_set: the bytes of the old character are replaced by the
\* encoding of the new one, the buffer resized when the lengths differ
Utf8Set(data, off, c) ==
    LET old == Utf8InitialByteCount(data[off + 1])
    IN SubSeq(data, 1, off) \o Utf8Encode(c) \o SubSeq(data, off + old + 1, Len(data))

\* sexp_string_utf8_set has return type void: the macro yields no value
macro_sexp_string_cursor_set(h, s, i, ch) ==
    NoRes([h EXCEPT ![AddrOf(s)].data =
              Utf8Set(@, macro_sexp_unbox_string_cursor(i), macro_sexp_unbox_character(ch))])

\* sexp_string_utf8_index_set returns SEXP_VOID
macro_sexp_string_set(h, s, i, ch) ==
    LET off == Utf8Cursor(h[AddrOf(s)].data, 0, macro_sexp_unbox_fixnum(i))
    IN Res(macro_sexp_string_cursor_set(h, s, macro_sexp_make_string_cursor(off), ch).heap,
           SEXP_VOID)

(***************************************************************************)
(* The signatures of the wrappers: Declared is what the adapter's header   *)
(* (wrapper.h) promises the binding generator, Defined is what the         *)
(* function definition (wrapper.c) has.                                    *)
(***************************************************************************)
DeclaredTable(op) ==
    CASE op = "sexp_booleanp" -> [ret |-> "bool", params |-> <<"sexp obj">>]
      [] op = "sexp_fixnump" -> [ret |-> "bool", params |-> <<"sexp obj">>]
      [] op = "sexp_charp" -> [ret |-> "bool", params |-> <<"sexp obj">>]
      [] op = "sexp_stringp" -> [ret |-> "bool", params |-> <<"sexp obj">>]
      [] op = "sexp_bytesp" -> [ret |-> "bool", params |-> <<"sexp obj">>]
      [] op = "sexp_pairp" -> [ret |-> "bool", params |-> <<"sexp obj">>]
      [] op = "sexp_vectorp" -> [ret |-> "bool", params |-> <<"sexp obj">>]
      [] op = "sexp_string_ref" -> [ret |-> "sexp", params |-> <<"sexp ctx", "sexp s", "sexp i">>]
      [] op = "sexp_string_set" -> [ret |-> "sexp", params |-> <<"sexp ctx", "sexp s", "sexp i", "sexp ch">>]
      [] op = "sexp_string_cursor_set" -> [ret |-> "sexp", params |-> <<"sexp ctx", "sexp s", "sexp i", "sexp ch">>]
      [] op = "sexp_make_boolean" -> [ret |-> "sexp", params |-> <<"bool n">>]
      [] op = "sexp_unbox_boolean" -> [ret |-> "bool", params |-> <<"sexp obj">>]
      [] op = "sexp_make_fixnum" -> [ret |-> "sexp", params |-> <<"sexp_sint_t n">>]
      [] op = "sexp_unbox_fixnum" -> [ret |-> "sexp_sint_t", params |-> <<"sexp obj">>]
      [] op = "sexp_make_character" -> [ret |-> "sexp", params |-> <<"char n">>]
      [] op = "sexp_unbox_character" -> [ret |-> "char", params |-> <<"sexp obj">>]
      [] op = "sexp_make_string_cursor" -> [ret |-> "sexp", params |-> <<"int n">>]
      [] op = "sexp_unbox_string_cursor" -> [ret |-> "int", params |-> <<"sexp obj">>]
      [] op = "sexp_car" -> [ret |-> "sexp", params |-> <<"sexp pair">>]
      [] op = "sexp_cdr" -> [ret |-> "sexp", params |-> <<"sexp pair">>]
      [] op = "sexp_bytes_ref" -> [ret |-> "sexp", params |-> <<"sexp bv", "sexp i">>]
      [] op = "sexp_bytes_set" -> [ret |-> "sexp", params |-> <<"sexp bv", "sexp i", "sexp obj">>]
      [] op = "sexp_vector_ref" -> [ret |-> "sexp", params |-> <<"sexp vec", "sexp i">>]
      [] op = "sexp_vector_set" -> [ret |-> "sexp", params |-> <<"sexp vec", "sexp i", "sexp obj">>]
      [] op = "sexp_cons" -> [ret |-> "sexp", params |-> <<"sexp ctx", "sexp obj1", "sexp obj2">>]
      [] op = "sexp_list1" -> [ret |-> "sexp", params |-> <<"sexp ctx", "sexp obj">>]
      [] op = "sexp_make_string" -> [ret |-> "sexp", params |-> <<"sexp ctx", "sexp len", "sexp ch">>]
      [] op = "sexp_make_bytes" -> [ret |-> "sexp", params |-> <<"sexp ctx", "sexp len", "sexp i">>]
      [] op = "sexp_make_vector" -> [ret |-> "sexp", params |-> <<"sexp ctx", "sexp len", "sexp obj">>]
      [] op = "scm_is_true_wrapper" -> [ret |-> "bool", params |-> <<"SCM obj">>]
      [] op = "scm_is_false_wrapper" -> [ret |-> "bool", params |-> <<"SCM obj">>]
      [] op = "scm_from_bool" -> [ret |-> "SCM", params |-> <<"bool obj">>]
      [] op = "wrapper_free" -> [ret |-> "void", params |-> <<"void *ptr">>]
      [] OTHER -> [ret |-> "none", params |-> <<>>]

DefinedTable(op) ==
    CASE op = "sexp_booleanp" -> [ret |-> "bool", params |-> <<"sexp obj">>]
      [] op = "sexp_fixnump" -> [ret |-> "bool", params |-> <<"sexp obj">>]
      [] op = "sexp_charp" -> [ret |-> "bool", params |-> <<"sexp obj">>]
      [] op = "sexp_stringp" -> [ret |-> "bool", params |-> <<"sexp obj">>]
      [] op = "sexp_bytesp" -> [ret |-> "bool", params |-> <<"sexp obj">>]
      [] op = "sexp_pairp" -> [ret |-> "bool", params |-> <<"sexp obj">>]
      [] op = "sexp_vectorp" -> [ret |-> "bool", params |-> <<"sexp obj">>]
      [] op = "sexp_string_ref" -> [ret |-> "sexp", params |-> <<"sexp ctx", "sexp s", "sexp i">>]
      [] op = "sexp_string_set" -> [ret |-> "sexp", params |-> <<"sexp ctx", "sexp s", "sexp i", "sexp ch">>]
      [] op = "sexp_string_cursor_set" -> [ret |-> "void", params |-> <<"sexp ctx", "sexp s", "sexp i", "sexp ch">>]
      [] op = "sexp_make_boolean" -> [ret |-> "sexp", params |-> <<"bool n">>]
      [] op = "sexp_unbox_boolean" -> [ret |-> "bool", params |-> <<"sexp obj">>]
      [] op = "sexp_make_fixnum" -> [ret |-> "sexp", params |-> <<"sexp_sint_t n">>]
      [] op = "sexp_unbox_fixnum" -> [ret |-> "sexp_sint_t", params |-> <<"sexp obj">>]
      [] op = "sexp_make_character" -> [ret |-> "sexp", params |-> <<"char n">>]
      [] op = "sexp_unbox_character" -> [ret |-> "char", params |-> <<"sexp obj">>]
      [] op = "sexp_make_string_cursor" -> [ret |-> "sexp", params |-> <<"int n">>]
      [] op = "sexp_unbox_string_cursor" -> [ret |-> "int", params |-> <<"sexp obj">>]
      [] op = "sexp_car" -> [ret |-> "sexp", params |-> <<"sexp pair">>]
      [] op = "sexp_cdr" -> [ret |-> "sexp", params |-> <<"sexp pair">>]
      [] op = "sexp_bytes_ref" -> [ret |-> "sexp", params |-> <<"sexp bv", "sexp i">>]
      [] op = "sexp_bytes_set" -> [ret |-> "sexp", params |-> <<"sexp bv", "sexp i", "sexp obj">>]
      [] op = "sexp_vector_ref" -> [ret |-> "sexp", params |-> <<"sexp vec", "sexp i">>]
      [] op = "sexp_vector_set" -> [ret |-> "sexp", params |-> <<"sexp vec", "sexp i", "sexp obj">>]
      [] op = "sexp_cons" -> [ret |-> "sexp", params |-> <<"sexp ctx", "sexp obj1", "sexp obj2">>]
      [] op = "sexp_list1" -> [ret |-> "sexp", params |-> <<"sexp ctx", "sexp obj">>]
      [] op = "sexp_make_string" -> [ret |-> "sexp", params |-> <<"sexp ctx", "sexp len", "sexp ch">>]
      [] op = "sexp_make_bytes" -> [ret |-> "sexp", params |-> <<"sexp ctx", "sexp len", "sexp i">>]
      [] op = "sexp_make_vector" -> [ret |-> "sexp", params |-> <<"sexp ctx", "sexp len", "sexp obj">>]
      [] op = "scm_is_true_wrapper" -> [ret |-> "bool", params |-> <<"SCM obj">>]
      [] op = "scm_is_false_wrapper" -> [ret |-> "bool", params |-> <<"SCM obj">>]
      [] op = "scm_from_bool" -> [ret |-> "SCM", params |-> <<"bool obj">>]
      [] op = "wrapper_free" -> [ret |-> "void", params |-> <<"void *ptr">>]
      [] OTHER -> [ret |-> "none", params |-> <<>>]

Declared(op) == DeclaredTable(op)

\* a faulty variant: sexp_cons defined without its context parameter
Defined_ConsNoCtx(op) ==
    IF op = "sexp_cons" THEN [ret |-> "sexp", params |-> <<"sexp obj1", "sexp obj2">>]
    ELSE DefinedTable(op)
Defined(op) == DefinedTable(op)

\* a wrapper takes a context when its first parameter is `sexp ctx`
TakesContext(op) ==
    /\ Len(Defined(op).params) > 0
    /\ Defined(op).params[1] = "sexp ctx"

(***************************************************************************)
(* Adapter A: the wrappers of chibi-scheme-wrapper/wrapper.c.  A wrapper   *)
(* that reads or changes the heap takes it as h and yields Res / NoRes;    *)
(* the context handle selects the heap and is not a parameter here.        *)
(***************************************************************************)
sexp_booleanp(obj) == ToBool(macro_sexp_booleanp(obj))
sexp_fixnump(obj) == ToBool(macro_sexp_fixnump(obj))
sexp_charp(obj) == ToBool(macro_sexp_charp(obj))
sexp_stringp(h, obj) == ToBool(macro_sexp_stringp(h, obj))
\* a faulty variant: the body expands the neighbouring predicate
sexp_bytesp_Neighbour(h, obj) == ToBool(macro_sexp_stringp(h, obj))
sexp_bytesp(h, obj) == ToBool(macro_sexp_bytesp(h, obj))
sexp_pairp(h, obj) == ToBool(macro_sexp_pairp(h, obj))
sexp_vectorp(h, obj) == ToBool(macro_sexp_vectorp(h, obj))

sexp_string_ref(h, s, i) == Res(h, macro_sexp_string_ref(h, s, i))
sexp_string_set(h, s, i, ch) == macro_sexp_string_set(h, s, i, ch)
\* void (sexp_string_cursor_set)(...) { sexp_string_cursor_set(ctx, s, i, ch); }
sexp_string_cursor_set(h, s, i, ch) == NoRes(macro_sexp_string_cursor_set(h, s, i, ch).heap)

sexp_make_boolean(n) == macro_sexp_make_boolean(ToBool(n))
sexp_unbox_boolean(obj) == ToBool(macro_sexp_unbox_boolean(obj))
sexp_make_fixnum(n) == macro_sexp_make_fixnum(ToSint(n))
\* a faulty variant: the return type is sexp_uint_t
sexp_unbox_fixnum_Unsigned(obj) == ToWord(macro_sexp_unbox_fixnum(obj))
sexp_unbox_fixnum(obj) == ToSint(macro_sexp_unbox_fixnum(obj))
\* the parameter and the return value have type char
sexp_make_character(n) == macro_sexp_make_character(ToChar(n))
sexp_unbox_character(obj) == ToChar(macro_sexp_unbox_character(obj))
sexp_make_string_cursor(n) == macro_sexp_make_string_cursor(ToSint(n))
sexp_unbox_string_cursor(obj) == ToSint(macro_sexp_unbox_string_cursor(obj))

sexp_car(h, pair) == Res(h, macro_sexp_car(h, pair))
sexp_cdr(h, pair) == Res(h, macro_sexp_cdr(h, pair))

sexp_bytes_ref(h, bv, i) == Res(h, macro_sexp_bytes_ref(h, bv, i))
\* { sexp_bytes_set(bv, i, obj); return SEXP_VOID; }
sexp_bytes_set(h, bv, i, obj) == Res(macro_sexp_bytes_set(h, bv, i, obj).heap, SEXP_VOID)
sexp_vector_ref(h, vec, i) == Res(h, macro_sexp_vector_ref(h, vec, i))
\* a faulty variant: the body returns SEXP_VOID without the store
sexp_vector_set_NoStore(h, vec, i, obj) == Res(h, SEXP_VOID)
\* { sexp_vector_set(vec, i, obj); return SEXP_VOID; }
sexp_vector_set(h, vec, i, obj) == Res(macro_sexp_vector_set(h, vec, i, obj).heap, SEXP_VOID)

sexp_cons(h, obj1, obj2) == macro_sexp_cons(h, obj1, obj2)
sexp_list1(h, obj) == macro_sexp_list1(h, obj)
sexp_make_string(h, len, ch) == macro_sexp_make_string(h, len, ch)
sexp_make_bytes(h, len, i) == macro_sexp_make_bytes(h, len, i)
sexp_make_vector(h, len, obj) == macro_sexp_make_vector(h, len, obj)

(***************************************************************************)
(* Adapter B: tagged words of the wrapped interpreter (libguile) and the   *)
(* wrappers of guile-wrapper/wrapper.c.                                    *)
(***************************************************************************)
scm_tc8_flag == 4
scm_tc2_int == 2
SCM_MAKIFLAG_BITS(n) == Shl(n, 8) + scm_tc8_flag
SCM_BOOL_F == SCM_MAKIFLAG_BITS(0)
SCM_ELISP_NIL == SCM_MAKIFLAG_BITS(1)
SCM_EOL == SCM_MAKIFLAG_BITS(3)
SCM_BOOL_T == SCM_MAKIFLAG_BITS(4)
SCM_UNSPECIFIED == SCM_MAKIFLAG_BITS(8)
SCM_I_MAKINUM(n) == ToWord(Shl(n, 2) + scm_tc2_int)

\* ((x & ~(a ^ b)) == (a & b))
SCM_MATCHES_BITS_IN_COMMON(x, a, b) == BitAnd(x, BitNot(BitXor(a, b))) = BitAnd(a, b)

\* #nil is false
macro_scm_is_false(x) == CInt(SCM_MATCHES_BITS_IN_COMMON(x, SCM_ELISP_NIL, SCM_BOOL_F))
macro_scm_is_true(x) == CInt(macro_scm_is_false(x) = 0)
macro_scm_from_bool(x) == IF x # 0 THEN SCM_BOOL_T ELSE SCM_BOOL_F

\* a faulty variant: truth tested as identity with #t
scm_is_true_wrapper_IsT(obj) == ToBool(CInt(obj = SCM_BOOL_T))
scm_is_true_wrapper(obj) == ToBool(macro_scm_is_true(obj))
\* a faulty variant: the body expands scm_is_true
scm_is_false_wrapper_True(obj) == ToBool(macro_scm_is_true(obj))
scm_is_false_wrapper(obj) == ToBool(macro_scm_is_false(obj))
scm_from_bool(obj) == macro_scm_from_bool(ToBool(obj))

\* Raw buffers.  free(ptr): nothing for NULL; a live block is released; a
\* block already released is released again, which is undefined: the block's
\* state is lost and any other block of the allocator may be corrupted with it.
NULL == 0
BlockStates == {"allocated", "released", "undefined"}

free(bl, ptr) ==
    IF ptr = NULL THEN {bl}
    ELSE IF bl[ptr] = "allocated" THEN {[bl EXCEPT ![ptr] = "released"]}
    ELSE {b2 \in [DOMAIN bl -> BlockStates] :
            /\ b2[ptr] = "undefined"
            /\ \A q \in DOMAIN bl : b2[q] # bl[q] => b2[q] = "undefined"}

\* a faulty variant: a block already released is left alone
wrapper_free_Guarded(bl, ptr) ==
    IF ptr # NULL /\ bl[ptr] # "allocated" THEN {bl} ELSE free(bl, ptr)
\* void wrapper_free(void *ptr) { free(ptr); }
wrapper_free(bl, ptr) == free(bl, ptr)

(***************************************************************************)
(* The state machine.  One process links one adapter (backend).  call is   *)
(* the last wrapper call as the caller saw it:                             *)
(*   op, args   the wrapper and the arguments passed                       *)
(*   ret        the value the caller reads back, by the header's signature *)
(*   produced   the definition returned a value                            *)
(*   macro, macroHas   what the wrapped macro yields on the arguments as    *)
(*              the wrapper's parameters hold them                         *)
(*   alloc      the call allocated a heap object                           *)
(*   prev       for a call that only reads: the call before it, when that  *)
(*              call made or wrote the handle this one reads               *)
(***************************************************************************)
NoPrev == [op |-> "none", args |-> <<>>, ret |-> 0]
Summary(c) == [op |-> c.op, args |-> c.args, ret |-> c.ret]

\* words a caller may find where a value was promised and none was returned:
\* whatever the return register held, a null word or a well-formed handle
Garbage == {0, SEXP_VOID}

\* what the caller reads back from a call of op whose definition yielded w
Received(op, w) ==
    IF w.has THEN {w.val}
    ELSE IF Declared(op).ret = "void" THEN {0}
    ELSE Garbage

Invoke(op, args, w, m, prev) ==
    /\ heap' = w.heap
    /\ \E r \in Received(op, w) :
         call' = [op |-> op, args |-> args, ret |-> r, produced |-> w.has,
                  macro |-> m.val, macroHas |-> m.has,
                  alloc |-> Len(w.heap) > Len(heap),
                  prev |-> prev]
    /\ UNCHANGED <<backend, charSigned, blocks, frees>>

\* the call before, when it returned the handle x
Returned(ops, x) ==
    IF call.op \in ops /\ call.produced /\ call.ret = x THEN Summary(call) ELSE NoPrev
\* the call before, when it returned the handle x or began with the arguments at
Touched(makers, users, x, at) ==
    IF \/ call.op \in makers /\ call.produced /\ call.ret = x
       \/ call.op \in users /\ SubSeq(call.args, 1, Len(at)) = at
    THEN Summary(call) ELSE NoPrev

\* a scalar wrapper: the heap is untouched
Pure(v) == Res(heap, v)

(* inputs *)
FixnumInputs ==
    (SintMin..(SintMin + Edge)) \cup ((SEXP_MIN_FIXNUM - Edge)..(SEXP_MIN_FIXNUM + Edge))
    \cup ((-Edge)..Edge) \cup ((SEXP_MAX_FIXNUM - Edge)..(SEXP_MAX_FIXNUM + Edge))
    \cup ((SintMax - Edge)..SintMax)
CodePoints == {0, 65, 127, 128, 233, 255, 256, 955}
BoolInputs == {0, 1}
CursorInputs == 0..(2 * MaxLen)

\* the values a caller stores: an immediate and the newest heap object
ElemSamples(h) == {macro_sexp_make_fixnum(1), PtrTo(Len(h))}
ByteSamples == {macro_sexp_make_fixnum(b) : b \in {7, 200}}
CharSamples == {macro_sexp_make_character(c) : c \in {65, 955}}
\* the lengths a caller asks for: empty and full
LenSamples == {macro_sexp_make_fixnum(n) : n \in {0, MaxLen}}

Objs(h, t) == {PtrTo(a) : a \in {b \in 1..Len(h) : h[b].tag = t}}
Indices(n) == {macro_sexp_make_fixnum(k) : k \in 0..(n - 1)}
DataLen(h, x) == Len(h[AddrOf(x)].data)
\* the cursors of a string: the byte offsets at which its characters start
Cursors(h, s) ==
    {macro_sexp_make_string_cursor(Utf8Cursor(h[AddrOf(s)].data, 0, k)) :
        k \in 0..(macro_sexp_string_length(h, s) - 1)}

Constructors == {"sexp_cons", "sexp_list1", "sexp_make_string", "sexp_make_bytes",
                 "sexp_make_vector"}
Boxers == {"sexp_make_boolean", "sexp_make_fixnum", "sexp_make_character",
           "sexp_make_string_cursor"}
Unboxers == {"sexp_unbox_boolean", "sexp_unbox_fixnum", "sexp_unbox_character",
             "sexp_unbox_string_cursor"}

Init ==
    /\ backend \in {"chibi", "guile"}
    /\ charSigned \in (IF backend = "chibi" THEN BOOLEAN ELSE {FALSE})
    /\ heap = << [tag |-> SEXP_VECTOR, data |-> <<>>] >>
    /\ blocks = [b \in 1..MaxBlocks |-> "allocated"]
    /\ frees = [b \in 1..MaxBlocks |-> 0]
    /\ call = [op |-> "none", args |-> <<>>, ret |-> 0, produced |-> FALSE,
               macro |-> 0, macroHas |-> FALSE, alloc |-> FALSE, prev |-> NoPrev]

\* The scalar wrappers neither read nor change the heap; the caller of the
\* model boxes and unboxes its scalars before it builds heap objects.
NoObjects == Len(heap) = 1

(* Adapter A: scalar boxing *)
Call_sexp_make_boolean ==
    /\ backend = "chibi" /\ NoObjects
    /\ \E n \in BoolInputs :
         Invoke("sexp_make_boolean", <<n>>, Pure(sexp_make_boolean(n)),
                Pure(macro_sexp_make_boolean(ToBool(n))), NoPrev)

Call_sexp_make_fixnum ==
    /\ backend = "chibi" /\ NoObjects
    /\ \E n \in FixnumInputs :
         Invoke("sexp_make_fixnum", <<n>>, Pure(sexp_make_fixnum(n)),
                Pure(macro_sexp_make_fixnum(ToSint(n))), NoPrev)

Call_sexp_make_character ==
    /\ backend = "chibi" /\ NoObjects
    /\ \E n \in CodePoints :
         Invoke("sexp_make_character", <<n>>, Pure(sexp_make_character(n)),
                Pure(macro_sexp_make_character(ToChar(n))), NoPrev)

Call_sexp_make_string_cursor ==
    /\ backend = "chibi" /\ NoObjects
    /\ \E n \in CursorInputs :
         Invoke("sexp_make_string_cursor", <<n>>, Pure(sexp_make_string_cursor(n)),
                Pure(macro_sexp_make_string_cursor(ToSint(n))), NoPrev)

(* Adapter A: unboxing, of the handle the boxing call before it returned *)
Call_sexp_unbox_boolean ==
    /\ backend = "chibi" /\ NoObjects
    /\ call.op = "sexp_make_boolean"
    /\ Invoke("sexp_unbox_boolean", <<call.ret>>, Pure(sexp_unbox_boolean(call.ret)),
              Pure(macro_sexp_unbox_boolean(call.ret)), Summary(call))

Call_sexp_unbox_fixnum ==
    /\ backend = "chibi" /\ NoObjects
    /\ call.op = "sexp_make_fixnum"
    /\ Invoke("sexp_unbox_fixnum", <<call.ret>>, Pure(sexp_unbox_fixnum(call.ret)),
              Pure(macro_sexp_unbox_fixnum(call.ret)), Summary(call))

Call_sexp_unbox_character ==
    /\ backend = "chibi"
    /\ \/ NoObjects /\ call.op = "sexp_make_character"
       \/ call.op = "sexp_string_ref"
    /\ Invoke("sexp_unbox_character", <<call.ret>>, Pure(sexp_unbox_character(call.ret)),
              Pure(macro_sexp_unbox_character(call.ret)), Summary(call))

Call_sexp_unbox_string_cursor ==
    /\ backend = "chibi" /\ NoObjects
    /\ call.op = "sexp_make_string_cursor"
    /\ Invoke("sexp_unbox_string_cursor", <<call.ret>>,
              Pure(sexp_unbox_string_cursor(call.ret)),
              Pure(macro_sexp_unbox_string_cursor(call.ret)), Summary(call))

(* Adapter A: type predicates, of the handle the constructor or boxing call
   before it returned *)
Made == call.op \in Constructors \cup Boxers

Call_sexp_booleanp ==
    /\ backend = "chibi" /\ Made
    /\ Invoke("sexp_booleanp", <<call.ret>>, Pure(sexp_booleanp(call.ret)),
              Pure(macro_sexp_booleanp(call.ret)), Summary(call))

Call_sexp_fixnump ==
    /\ backend = "chibi" /\ Made
    /\ Invoke("sexp_fixnump", <<call.ret>>, Pure(sexp_fixnump(call.ret)),
              Pure(macro_sexp_fixnump(call.ret)), Summary(call))

Call_sexp_charp ==
    /\ backend = "chibi" /\ Made
    /\ Invoke("sexp_charp", <<call.ret>>, Pure(sexp_charp(call.ret)),
              Pure(macro_sexp_charp(call.ret)), Summary(call))

Call_sexp_stringp ==
    /\ backend = "chibi" /\ Made
    /\ Invoke("sexp_stringp", <<call.ret>>, Pure(sexp_stringp(heap, call.ret)),
              Pure(macro_sexp_stringp(heap, call.ret)), Summary(call))

Call_sexp_bytesp ==
    /\ backend = "chibi" /\ Made
    /\ Invoke("sexp_bytesp", <<call.ret>>, Pure(sexp_bytesp(heap, call.ret)),
              Pure(macro_sexp_bytesp(heap, call.ret)), Summary(call))

Call_sexp_pairp ==
    /\ backend = "chibi" /\ Made
    /\ Invoke("sexp_pairp", <<call.ret>>, Pure(sexp_pairp(heap, call.ret)),
              Pure(macro_sexp_pairp(heap, call.ret)), Summary(call))

Call_sexp_vectorp ==
    /\ backend = "chibi" /\ Made
    /\ Invoke("sexp_vectorp", <<call.ret>>, Pure(sexp_vectorp(heap, call.ret)),
              Pure(macro_sexp_vectorp(heap, call.ret)), Summary(call))

(* Adapter A: constructors *)
Call_sexp_cons ==
    /\ backend = "chibi" /\ Len(heap) < MaxObjs
    /\ \E a \in ElemSamples(heap), b \in ElemSamples(heap) :
         Invoke("sexp_cons", <<a, b>>, sexp_cons(heap, a, b),
                macro_sexp_cons(heap, a, b), NoPrev)

Call_sexp_list1 ==
    /\ backend = "chibi" /\ Len(heap) < MaxObjs
    /\ \E a \in ElemSamples(heap) :
         Invoke("sexp_list1", <<a>>, sexp_list1(heap, a), macro_sexp_list1(heap, a), NoPrev)

Call_sexp_make_string ==
    /\ backend = "chibi" /\ Len(heap) < MaxObjs
    /\ \E len \in LenSamples, ch \in CharSamples :
         Invoke("sexp_make_string", <<len, ch>>, sexp_make_string(heap, len, ch),
                macro_sexp_make_string(heap, len, ch), NoPrev)

Call_sexp_make_bytes ==
    /\ backend = "chibi" /\ Len(heap) < MaxObjs
    /\ \E len \in LenSamples, i \in ByteSamples :
         Invoke("sexp_make_bytes", <<len, i>>, sexp_make_bytes(heap, len, i),
                macro_sexp_make_bytes(heap, len, i), NoPrev)

Call_sexp_make_vector ==
    /\ backend = "chibi" /\ Len(heap) < MaxObjs
    /\ \E len \in LenSamples, obj \in ElemSamples(heap) :
         Invoke("sexp_make_vector", <<len, obj>>, sexp_make_vector(heap, len, obj),
                macro_sexp_make_vector(heap, len, obj), NoPrev)

(* Adapter A: element access, at indices inside the sequence *)
Call_sexp_car ==
    /\ backend = "chibi"
    /\ \E p \in Objs(heap, SEXP_PAIR) :
         Invoke("sexp_car", <<p>>, sexp_car(heap, p), Pure(macro_sexp_car(heap, p)),
                Returned({"sexp_cons", "sexp_list1"}, p))

Call_sexp_cdr ==
    /\ backend = "chibi"
    /\ \E p \in Objs(heap, SEXP_PAIR) :
         Invoke("sexp_cdr", <<p>>, sexp_cdr(heap, p), Pure(macro_sexp_cdr(heap, p)),
                Returned({"sexp_cons", "sexp_list1"}, p))

Call_sexp_vector_ref ==
    /\ backend = "chibi"
    /\ \E vec \in Objs(heap, SEXP_VECTOR) : \E i \in Indices(DataLen(heap, vec)) :
         Invoke("sexp_vector_ref", <<vec, i>>, sexp_vector_ref(heap, vec, i),
                Pure(macro_sexp_vector_ref(heap, vec, i)),
                Touched({"sexp_make_vector"}, {"sexp_vector_set"}, vec, <<vec, i>>))

Call_sexp_vector_set ==
    /\ backend = "chibi"
    /\ \E vec \in Objs(heap, SEXP_VECTOR) : \E i \in Indices(DataLen(heap, vec)) :
         \E obj \in ElemSamples(heap) :
           Invoke("sexp_vector_set", <<vec, i, obj>>, sexp_vector_set(heap, vec, i, obj),
                  macro_sexp_vector_set(heap, vec, i, obj), NoPrev)

Call_sexp_bytes_ref ==
    /\ backend = "chibi"
    /\ \E bv \in Objs(heap, SEXP_BYTES) : \E i \in Indices(DataLen(heap, bv)) :
         Invoke("sexp_bytes_ref", <<bv, i>>, sexp_bytes_ref(heap, bv, i),
                Pure(macro_sexp_bytes_ref(heap, bv, i)),
                Touched({"sexp_make_bytes"}, {"sexp_bytes_set"}, bv, <<bv, i>>))

Call_sexp_bytes_set ==
    /\ backend = "chibi"
    /\ \E bv \in Objs(heap, SEXP_BYTES) : \E i \in Indices(DataLen(heap, bv)) :
         \E obj \in ByteSamples :
           Invoke("sexp_bytes_set", <<bv, i, obj>>, sexp_bytes_set(heap, bv, i, obj),
                  macro_sexp_bytes_set(heap, bv, i, obj), NoPrev)

Call_sexp_string_ref ==
    /\ backend = "chibi"
    /\ \E s \in Objs(heap, SEXP_STRING) : \E i \in Indices(macro_sexp_string_length(heap, s)) :
         Invoke("sexp_string_ref", <<s, i>>, sexp_string_ref(heap, s, i),
                Pure(macro_sexp_string_ref(heap, s, i)),
                Touched({"sexp_make_string"}, {"sexp_string_set"}, s, <<s, i>>))

Call_sexp_string_set ==
    /\ backend = "chibi"
    /\ \E s \in Objs(heap, SEXP_STRING) : \E i \in Indices(macro_sexp_string_length(heap, s)) :
         \E ch \in CharSamples :
           Invoke("sexp_string_set", <<s, i, ch>>, sexp_string_set(heap, s, i, ch),
                  macro_sexp_string_set(heap, s, i, ch), NoPrev)

Call_sexp_string_cursor_set ==
    /\ backend = "chibi"
    /\ \E s \in Objs(heap, SEXP_STRING) : \E i \in Cursors(heap, s) :
         \E ch \in CharSamples :
           Invoke("sexp_string_cursor_set", <<s, i, ch>>,
                  sexp_string_cursor_set(heap, s, i, ch),
                  macro_sexp_string_cursor_set(heap, s, i, ch), NoPrev)

(* Adapter B *)
ScmSamples == {SCM_BOOL_F, SCM_BOOL_T, SCM_ELISP_NIL, SCM_EOL, SCM_UNSPECIFIED,
               SCM_I_MAKINUM(0), SCM_I_MAKINUM(1), SCM_I_MAKINUM(-1), Shl(1, 3), Shl(33, 3)}

Call_scm_from_bool ==
    /\ backend = "guile"
    /\ \E b \in BoolInputs :
         Invoke("scm_from_bool", <<b>>, Pure(scm_from_bool(b)),
                Pure(macro_scm_from_bool(ToBool(b))), NoPrev)

Call_scm_is_true_wrapper ==
    /\ backend = "guile"
    /\ \E x \in ScmSamples :
         Invoke("scm_is_true_wrapper", <<x>>, Pure(scm_is_true_wrapper(x)),
                Pure(macro_scm_is_true(x)),
                Touched({"scm_from_bool"}, {"scm_is_true_wrapper", "scm_is_false_wrapper"},
                        x, <<x>>))

Call_scm_is_false_wrapper ==
    /\ backend = "guile"
    /\ \E x \in ScmSamples :
         Invoke("scm_is_false_wrapper", <<x>>, Pure(scm_is_false_wrapper(x)),
                Pure(macro_scm_is_false(x)),
                Touched({"scm_from_bool"}, {"scm_is_true_wrapper", "scm_is_false_wrapper"},
                        x, <<x>>))

\* the caller passes any pointer it holds, released before or not
Call_wrapper_free ==
    /\ backend = "guile"
    /\ \E ptr \in {NULL} \cup (1..MaxBlocks) :
         /\ ptr # NULL => frees[ptr] < MaxFrees
         /\ blocks' \in wrapper_free(blocks, ptr)
         /\ frees' = IF ptr = NULL THEN frees ELSE [frees EXCEPT ![ptr] = @ + 1]
         /\ call' = [op |-> "wrapper_free", args |-> <<ptr>>, ret |-> 0, produced |-> FALSE,
                     macro |-> 0, macroHas |-> FALSE, alloc |-> FALSE, prev |-> NoPrev]
    /\ UNCHANGED <<backend, charSigned, heap>>

Next ==
    \/ Call_sexp_make_boolean \/ Call_sexp_make_fixnum
    \/ Call_sexp_make_character \/ Call_sexp_make_string_cursor
    \/ Call_sexp_unbox_boolean \/ Call_sexp_unbox_fixnum
    \/ Call_sexp_unbox_character \/ Call_sexp_unbox_string_cursor
    \/ Call_sexp_booleanp \/ Call_sexp_fixnump \/ Call_sexp_charp
    \/ Call_sexp_stringp \/ Call_sexp_bytesp \/ Call_sexp_pairp \/ Call_sexp_vectorp
    \/ Call_sexp_cons \/ Call_sexp_list1
    \/ Call_sexp_make_string \/ Call_sexp_make_bytes \/ Call_sexp_make_vector
    \/ Call_sexp_car \/ Call_sexp_cdr
    \/ Call_sexp_vector_ref \/ Call_sexp_vector_set
    \/ Call_sexp_bytes_ref \/ Call_sexp_bytes_set
    \/ Call_sexp_string_ref \/ Call_sexp_string_set \/ Call_sexp_string_cursor_set
    \/ Call_scm_from_bool \/ Call_scm_is_true_wrapper \/ Call_scm_is_false_wrapper
    \/ Call_wrapper_free

Spec == Init /\ [][Next]_vars

(***************************************************************************)
(* Properties.                                                             *)
(***************************************************************************)
AdapterA == {"sexp_booleanp", "sexp_fixnump", "sexp_charp", "sexp_stringp", "sexp_bytesp",
             "sexp_pairp", "sexp_vectorp", "sexp_string_ref", "sexp_string_set",
             "sexp_string_cursor_set", "sexp_car", "sexp_cdr", "sexp_bytes_ref",
             "sexp_bytes_set", "sexp_vector_ref", "sexp_vector_set"}
            \cup Constructors \cup Boxers \cup Unboxers
Predicates == {"sexp_booleanp", "sexp_fixnump", "sexp_charp", "sexp_stringp",
               "sexp_bytesp", "sexp_pairp", "sexp_vectorp"}
TruthTests == {"scm_is_true_wrapper", "scm_is_false_wrapper"}

\* C1: every Adapter A wrapper returns the result of the macro it wraps,
\* unchanged: a value exactly when the macro yields one, and then that value;
\* the mutators sexp_bytes_set and sexp_vector_set included.
C1_ReturnsMacroResult ==
    call.op \in AdapterA =>
        /\ call.produced = call.macroHas
        /\ call.produced => call.ret = call.macro

\* C2: for every wrapper the definition has the return type and the parameter
\* list of its declaration in the header, so that a caller reading the value the
\* declaration promises receives a value the definition produced.
C2_DefinitionMatchesDeclaration ==
    call.op # "none" =>
        /\ Defined(call.op) = Declared(call.op)
        /\ Declared(call.op).ret # "void" => call.produced

FixnumRoundTrip == call.op = "sexp_unbox_fixnum" /\ call.prev.op = "sexp_make_fixnum"
InFixnumRange(n) == SEXP_MIN_FIXNUM <= n /\ n <= SEXP_MAX_FIXNUM

\* C3 as claimed: sexp_unbox_fixnum(sexp_make_fixnum(n)) = n for every native
\* signed integer n, the minimum and maximum of the native width included.
C3_FixnumRoundTripEveryInt == FixnumRoundTrip => call.ret = call.prev.args[1]

\* C3 as amended: sexp_unbox_fixnum(sexp_make_fixnum(n)) = n exactly for the n
\* of the fixnum range SEXP_MIN_FIXNUM..SEXP_MAX_FIXNUM, one bit narrower than
\* the native width; outside it the top bit is lost and the result differs.
C3_FixnumRoundTripInRange ==
    FixnumRoundTrip => (call.ret = call.prev.args[1] <=> InFixnumRange(call.prev.args[1]))

C3_Witness ==
    /\ FixnumRoundTrip
    /\ call.prev.args[1] = SEXP_MIN_FIXNUM
    /\ call.ret = SEXP_MIN_FIXNUM

\* C4: sexp_unbox_character(sexp_make_character(c)) = c for every code point c,
\* ASCII or not, code points above 255 included.
C4_CharacterRoundTrip ==
    (call.op = "sexp_unbox_character" /\ call.prev.op = "sexp_make_character")
        => call.ret = call.prev.args[1]

\* C5: scm_is_true_wrapper(scm_from_bool(b)) = b and
\* scm_is_false_wrapper(scm_from_bool(b)) = not b, for b true and false.
C5_TruthinessLaw ==
    /\ (call.op = "scm_is_true_wrapper" /\ call.prev.op = "scm_from_bool")
           => call.ret = call.prev.args[1]
    /\ (call.op = "scm_is_false_wrapper" /\ call.prev.op = "scm_from_bool")
           => call.ret = 1 - call.prev.args[1]

C5_Witness ==
    /\ call.op = "scm_is_false_wrapper"
    /\ call.prev.op = "scm_from_bool"
    /\ call.prev.args = <<0>>
    /\ call.ret = 1

\* C6: a read at an index inside a vector, bytevector or string just built with
\* fill value v returns v, and a read at index i after a write of x at i
\* through the wrapper's set operation returns x.
C6_SequenceElementLaw ==
    /\ (call.op = "sexp_vector_ref" /\ call.prev.op = "sexp_make_vector")
           => call.ret = call.prev.args[2]
    /\ (call.op = "sexp_bytes_ref" /\ call.prev.op = "sexp_make_bytes")
           => call.ret = call.prev.args[2]
    /\ (call.op = "sexp_string_ref" /\ call.prev.op = "sexp_make_string")
           => call.ret = call.prev.args[2]
    /\ (call.op = "sexp_vector_ref" /\ call.prev.op = "sexp_vector_set")
           => call.ret = call.prev.args[3]
    /\ (call.op = "sexp_bytes_ref" /\ call.prev.op = "sexp_bytes_set")
           => call.ret = call.prev.args[3]
    /\ (call.op = "sexp_string_ref" /\ call.prev.op = "sexp_string_set")
           => call.ret = call.prev.args[3]

C6_Witness ==
    /\ call.op = "sexp_vector_ref"
    /\ call.prev.op = "sexp_vector_set"
    /\ call.prev.args[2] = macro_sexp_make_fixnum(MaxLen - 1)
    /\ call.prev.args[3] = PtrTo(Len(heap))
    /\ call.ret = PtrTo(Len(heap))

KindTested(p) ==
    CASE p = "sexp_pairp" -> "pair"
      [] p = "sexp_vectorp" -> "vector"
      [] p = "sexp_bytesp" -> "bytes"
      [] p = "sexp_stringp" -> "string"
      [] p = "sexp_booleanp" -> "boolean"
      [] p = "sexp_fixnump" -> "fixnum"
      [] p = "sexp_charp" -> "char"

KindMade(c) ==
    CASE c \in {"sexp_cons", "sexp_list1"} -> "pair"
      [] c = "sexp_make_vector" -> "vector"
      [] c = "sexp_make_bytes" -> "bytes"
      [] c = "sexp_make_string" -> "string"
      [] c = "sexp_make_boolean" -> "boolean"
      [] c = "sexp_make_fixnum" -> "fixnum"
      [] c = "sexp_make_character" -> "char"
      [] c = "sexp_make_string_cursor" -> "string cursor"

\* C7: a type predicate applied to the value a constructor or boxing operation
\* returned is true when the predicate tests that operation's kind and false
\* when the value is of any other kind.
C7_PredicateConstructorLaw ==
    (call.op \in Predicates /\ call.prev.op \in Constructors \cup Boxers)
        => call.ret = CInt(KindTested(call.op) = KindMade(call.prev.op))

C7_Witness ==
    /\ call.op = "sexp_vectorp"
    /\ call.prev.op = "sexp_make_vector"
    /\ call.prev.args[1] = macro_sexp_make_fixnum(0)
    /\ call.ret = 1

\* C8 as claimed: every constructor and every scalar boxing operation takes a
\* context as its first argument; no unboxing operation takes a context or
\* allocates.
C8_BoxersTakeContext ==
    /\ call.op \in Constructors \cup Boxers => TakesContext(call.op)
    /\ call.op \in Unboxers => ~TakesContext(call.op) /\ ~call.alloc

\* C8 as amended: every constructor takes a context as its first argument;
\* the scalar boxing operations take no context and never allocate, and no
\* unboxing operation takes a context or allocates.
C8_ContextRule ==
    /\ call.op \in Constructors => TakesContext(call.op)
    /\ call.op \in Boxers \cup Unboxers => ~TakesContext(call.op) /\ ~call.alloc

C8_Witness ==
    /\ call.op = "sexp_make_fixnum"
    /\ ~TakesContext(call.op)
    /\ ~call.alloc
    /\ Len(heap) = 1

DoubleRelease == \E b \in 1..MaxBlocks : frees[b] >= 2

\* C9: wrapper_free is one plain release with no record and no validation: a
\* block is validly released only when it was passed exactly once, and a second
\* call on the same block is neither detected nor ignored but reaches the
\* undefined double-release state.
C9_FreeIsPlainRelease ==
    /\ \A b \in 1..MaxBlocks :
         /\ blocks[b] = "released" => frees[b] = 1
         /\ frees[b] >= 2 => blocks[b] = "undefined"
         /\ (frees[b] = 1 /\ ~DoubleRelease) => blocks[b] = "released"
         /\ frees[b] = 0 => blocks[b] # "released"
    /\ (\E b \in 1..MaxBlocks : blocks[b] = "undefined") <=> DoubleRelease

C9_Witness ==
    \E b \in 1..MaxBlocks :
        /\ call.op = "wrapper_free" /\ call.args = <<b>>
        /\ frees[b] = 2
        /\ blocks[b] = "undefined"

\* C10: scm_is_true_wrapper and scm_is_false_wrapper are complements on every
\* handle of every kind: the two tests of one handle never agree.
C10_TruthComplement ==
    (call.op \in TruthTests /\ call.prev.op \in TruthTests /\ call.prev.op # call.op
        /\ call.prev.args = call.args)
        => call.ret = 1 - call.prev.ret

C10_Witness ==
    /\ call.op = "scm_is_true_wrapper"
    /\ call.prev.op = "scm_is_false_wrapper"
    /\ call.args = <<SCM_UNSPECIFIED>>
    /\ call.prev.args = call.args
    /\ call.ret = 1

====
